---- MODULE Spec2Model ----
(***************************************************************************)
(* Model of docs/sw.js, the service worker of the God Checker PWA:         *)
(* install pre-caches the app shell, activate claims the open pages, and   *)
(* the fetch listener bypasses *.json and serves everything else           *)
(* cache-first.  The host side (Cache Storage, the worker lifecycle, the   *)
(* network) is modelled as far as the three listeners depend on it.        *)
(*                                                                         *)
(* URLs and paths are sequences of one-character strings, so that          *)
(* endsWith, URL parsing and relative resolution are computed.             *)
(***************************************************************************)
EXTENDS Integers, Sequences, FiniteSets, TLC

\* ---------------------------------------------------------------- bounds
MaxWorkers == 2
NumClients == 1

\* ------------------------------------------------------------- constants
\* sw.js:3; the second name stands for the next bump of the version string
CACHE_NAMES == <<"godchecker-v1", "godchecker-v2">>

ASSETS ==
  << <<".","/">>,
     <<".","/","i","n","d","e","x",".","h","t","m","l">>,
     <<".","/","m","a","n","i","f","e","s","t",".","w","e","b","m","a","n","i","f","e","s","t">>,
     <<".","/","i","c","o","n","s","/","i","c","o","n","-","1","9","2",".","p","n","g">>,
     <<".","/","i","c","o","n","s","/","i","c","o","n","-","5","1","2",".","p","n","g">> >>

\* the suffix tested by the fetch listener
JsonSuffix == <<".","j","s","o","n">>

\* directories sw.js is served from: the root (python -m http.server -d web)
\* and a GitHub Pages project site https://<username>.github.io/<repo>/
Bases == { <<"/">>, <<"/","g","o","d","c","h","e","c","k","e","r","/">> }

\* relative URLs the page requests besides the app shell: the data file,
\* the data file with a query string, and a file that is not pre-cached
DataRel == <<".","/","r","e","s","t","r","i","c","t","i","o","n","s",".","j","s","o","n">>
DataQueryRel == <<".","/","r","e","s","t","r","i","c","t","i","o","n","s",".","j","s","o","n","?","t","=","1">>
OtherRel == <<".","/","s","w",".","j","s">>

\* URLs that carry .json elsewhere than at the end of the path
JsonHtmlRel == <<".","/","x",".","j","s","o","n",".","h","t","m","l">>
UpperJsonRel == <<".","/","x",".","J","S","O","N">>
QueryJsonRel == <<".","/","p","a","g","e","?","f","=","a",".","j","s","o","n">>

Clients == 1..NumClients

\* ------------------------------------------------------- string helpers
SeqMin(S) == CHOOSE m \in S : \A x \in S : m <= x

\* String.prototype.endsWith
EndsWith(s, suffix) ==
  /\ Len(s) >= Len(suffix)
  /\ SubSeq(s, Len(s) - Len(suffix) + 1, Len(s)) = suffix

\* the part of s before the first character of stops (all of s if none)
Before(s, stops) ==
  LET I == { i \in 1..Len(s) : s[i] \in stops }
  IN  IF I = {} THEN s ELSE SubSeq(s, 1, SeqMin(I) - 1)

\* new URL(u).pathname: the URL up to the query string or the fragment
Pathname(u) == Before(u, {"?", "#"})

\* the URL a cache entry is keyed and matched by: the fragment is dropped,
\* the query string is kept
CacheKey(u) == Before(u, {"#"})

\* a resolution against the root of the origin
ResolveRoot(b, rel) == <<"/">> \o SubSeq(rel, 3, Len(rel))

\* resolution of "./x" against the directory the worker script is served from
Resolve(b, rel) == b \o SubSeq(rel, 3, Len(rel))

\* a test of the whole URL instead of its path
IsDataHref(u) == EndsWith(u, JsonSuffix)

\* url.pathname.endsWith('.json')
IsData(u) == EndsWith(Pathname(u), JsonSuffix)

AssetKeys(b) == { Resolve(b, ASSETS[i]) : i \in 1..Len(ASSETS) }

Requests(b) ==
  AssetKeys(b) \cup { Resolve(b, DataRel), Resolve(b, DataQueryRel), Resolve(b, OtherRel),
                      Resolve(b, JsonHtmlRel), Resolve(b, UpperJsonRel),
                      Resolve(b, QueryJsonRel) }

\* ------------------------------------------------------------ responses
NoResult == [kind |-> "none", url |-> <<>>, origin |-> "", by |-> 0]
NetError == [kind |-> "error", url |-> <<>>, origin |-> "", by |-> 0]
Response(u, o, w) == [kind |-> "response", url |-> u, origin |-> o, by |-> w]

\* -------------------------------------------------------- Cache Storage
\* Cache.match: the first entry of the request-response list with that URL
MatchIn(list, u) ==
  LET hits == SelectSeq(list, LAMBDA e : e.key = CacheKey(u))
  IN  IF hits = <<>> THEN NoResult ELSE Head(hits).resp

\* caches.match: the stores are searched in creation order
CachesMatch(cs, u) ==
  LET hits == SelectSeq(cs, LAMBDA c : MatchIn(c.list, u).kind = "response")
  IN  IF hits = <<>> THEN [resp |-> NoResult, store |-> ""]
      ELSE [resp |-> MatchIn(Head(hits).list, u), store |-> Head(hits).name]

HasCache(cs, n) == \E i \in 1..Len(cs) : cs[i].name = n

CacheOf(cs, n) == cs[CHOOSE i \in 1..Len(cs) : cs[i].name = n].list

\* caches.open: the store is created, empty, when it does not exist
CachesOpen(cs, n) ==
  IF HasCache(cs, n) THEN cs ELSE Append(cs, [name |-> n, list |-> <<>>])

RemoveKey(list, k) == SelectSeq(list, LAMBDA e : e.key # k)

\* a put that does not replace the entry of the same URL
PutOneDup(list, item) == Append(list, item)

\* one put of the batch: the entries of the same URL are replaced
PutOne(list, item) == Append(RemoveKey(list, item.key), item)

RECURSIVE PutAll(_, _)
PutAll(list, items) ==
  IF items = <<>> THEN list
  ELSE PutAll(PutOne(list, Head(items)), Tail(items))

\* the batch of puts that ends Cache.addAll, applied to store n
BatchPut(cs, n, items) ==
  [i \in 1..Len(cs) |->
     IF cs[i].name = n THEN [cs[i] EXCEPT !.list = PutAll(cs[i].list, items)]
     ELSE cs[i]]

\* ------------------------------------------------------------- the state
VARIABLES
  base,      \* directory sw.js is served from
  caches,    \* Cache Storage of the origin: stores in creation order
  workers,   \* every worker of the registration, in order of creation
  clients,   \* the pages: open or not, and the worker controlling them
  ev         \* the fetch event being handled, or the last one settled

vars == <<base, caches, workers, clients, ev>>

NoEvent ==
  [url |-> <<>>, worker |-> 0, stage |-> "idle", responded |-> FALSE,
   lookups |-> 0, fetches |-> 0, net |-> NoResult, result |-> NoResult, store |-> "",
   offline |-> FALSE]

\* a store another page or application of the same origin left behind
ForeignStores(b) ==
  { <<>>,
    << [name |-> "other", list |->
         << [key |-> Resolve(b, DataRel),
             resp |-> Response(Resolve(b, DataRel), "foreign", 0)],
            [key |-> Resolve(b, OtherRel),
             resp |-> Response(Resolve(b, OtherRel), "foreign", 0)] >>] >> }

Init ==
  /\ base \in Bases
  /\ caches \in ForeignStores(base)
  /\ workers = <<>>
  /\ clients = [c \in Clients |-> [open |-> FALSE, ctrl |-> 0]]
  /\ ev = NoEvent

Ids == 1..Len(workers)

NameIdx(n) == CHOOSE i \in 1..Len(CACHE_NAMES) : CACHE_NAMES[i] = n

\* ------------------------------------------------------------ environment
\* a page is opened: controlled by the activated worker, or not controlled
\* (opened before the registration, or force-reloaded)
ClientOpen(c) ==
  /\ ~clients[c].open
  /\ \E w \in {0} \cup { x \in Ids : workers[x].state = "activated" } :
       clients' = [clients EXCEPT ![c] = [open |-> TRUE, ctrl |-> w]]
  /\ UNCHANGED <<base, caches, workers, ev>>

ClientClose(c) ==
  /\ clients[c].open
  /\ clients' = [clients EXCEPT ![c] = [open |-> FALSE, ctrl |-> 0]]
  /\ UNCHANGED <<base, caches, workers, ev>>

\* register() or an update check finds a new sw.js: a worker starts
\* installing; its CACHE_NAME is the current one or a later one
Register(n) ==
  /\ Len(workers) < MaxWorkers
  /\ \A w \in Ids : workers[w].state # "installing"
  /\ \A w \in Ids : NameIdx(workers[w].name) <= NameIdx(n)
  /\ workers' = Append(workers,
       [name |-> n, state |-> "installing", pc |-> "open", got |-> <<>>, claimed |-> FALSE])
  /\ UNCHANGED <<base, caches, clients, ev>>

\* ---------------------------------------------------------------- install
\* an install that starts from an emptied store
InstallOpenFresh(w) ==
  /\ workers[w].state = "installing"
  /\ workers[w].pc = "open"
  /\ caches' = [i \in 1..Len(CachesOpen(caches, workers[w].name)) |->
       IF CachesOpen(caches, workers[w].name)[i].name = workers[w].name
       THEN [name |-> workers[w].name, list |-> <<>>]
       ELSE CachesOpen(caches, workers[w].name)[i]]
  /\ workers' = [workers EXCEPT ![w].pc = "addAll"]
  /\ UNCHANGED <<base, clients, ev>>

\* caches.open(CACHE_NAME)
InstallOpen(w) ==
  /\ workers[w].state = "installing"
  /\ workers[w].pc = "open"
  /\ caches' = CachesOpen(caches, workers[w].name)
  /\ workers' = [workers EXCEPT ![w].pc = "addAll"]
  /\ UNCHANGED <<base, clients, ev>>

\* the responses addAll holds once every asset has been fetched
Fetched(b, w) ==
  [i \in 1..Len(ASSETS) |->
     [key |-> Resolve(b, ASSETS[i]),
      resp |-> Response(Resolve(b, ASSETS[i]), "install", w)]]

\* an addAll that keeps what it fetched when another fetch fails
AddAllFetchPartial(w) ==
  /\ workers[w].state = "installing"
  /\ workers[w].pc = "addAll"
  /\ \E bad \in 0..Len(ASSETS) :
       IF bad = 0
       THEN /\ workers' = [workers EXCEPT ![w].pc = "put", ![w].got = Fetched(base, w)]
            /\ UNCHANGED caches
       ELSE /\ workers' = [workers EXCEPT ![w].pc = "failed"]
            /\ caches' = BatchPut(caches, workers[w].name,
                 SelectSeq(Fetched(base, w),
                           LAMBDA e : e.key # Resolve(base, ASSETS[bad])))
  /\ UNCHANGED <<base, clients, ev>>

\* c.addAll(ASSETS), the fetches: either every asset is fetched with an ok
\* status (bad = 0), or the fetch of asset number bad fails (a network
\* error or a status that is not ok) and addAll rejects
AddAllFetch(w) ==
  /\ workers[w].state = "installing"
  /\ workers[w].pc = "addAll"
  /\ \E bad \in 0..Len(ASSETS) :
       IF bad = 0
       THEN workers' = [workers EXCEPT ![w].pc = "put", ![w].got = Fetched(base, w)]
       ELSE workers' = [workers EXCEPT ![w].pc = "failed"]
  /\ UNCHANGED <<base, caches, clients, ev>>

\* c.addAll(ASSETS), the batch of puts, all at once
AddAllPut(w) ==
  /\ workers[w].state = "installing"
  /\ workers[w].pc = "put"
  /\ caches' = BatchPut(caches, workers[w].name, workers[w].got)
  /\ workers' = [workers EXCEPT ![w].pc = "stored", ![w].got = <<>>]
  /\ UNCHANGED <<base, clients, ev>>

\* an install listener that does not hand its promise to e.waitUntil
InstallSettledEarly(w) == TRUE

\* the promise given to e.waitUntil has resolved
InstallSettled(w) == workers[w].pc = "stored"

\* install succeeded: the worker waits; a worker that was waiting is dropped
InstallDone(w) ==
  /\ workers[w].state = "installing"
  /\ InstallSettled(w)
  /\ workers' = [x \in Ids |->
       IF x = w THEN [workers[x] EXCEPT !.state = "installed"]
       ELSE IF workers[x].state = "installed" THEN [workers[x] EXCEPT !.state = "redundant"]
       ELSE workers[x]]
  /\ UNCHANGED <<base, caches, clients, ev>>

\* the promise given to e.waitUntil has rejected: the worker is discarded
InstallFail(w) ==
  /\ workers[w].state = "installing"
  /\ workers[w].pc = "failed"
  /\ workers' = [workers EXCEPT ![w].state = "redundant"]
  /\ UNCHANGED <<base, caches, clients, ev>>

\* --------------------------------------------------------------- activate
\* the waiting worker becomes the active one when no page is controlled by
\* another worker (the script never calls skipWaiting)
Activate(w) ==
  /\ workers[w].state = "installed"
  /\ \A c \in Clients : clients[c].ctrl = 0
  /\ ev.stage \in {"idle", "done"}
  /\ workers' = [x \in Ids |->
       IF x = w THEN [workers[x] EXCEPT !.state = "activating"]
       ELSE IF workers[x].state \in {"activating", "activated"}
            THEN [workers[x] EXCEPT !.state = "redundant", !.claimed = FALSE]
       ELSE workers[x]]
  /\ UNCHANGED <<base, caches, clients, ev>>

\* an activate listener that claims nothing
ActivateNoClaim(w) ==
  /\ workers[w].state = "activating"
  /\ ~workers[w].claimed
  /\ workers' = [workers EXCEPT ![w].claimed = TRUE]
  /\ UNCHANGED <<base, caches, clients, ev>>

\* the activate listener: self.clients.claim() takes the open pages
ActivateClaim(w) ==
  /\ workers[w].state = "activating"
  /\ ~workers[w].claimed
  /\ clients' = [c \in Clients |->
       IF clients[c].open THEN [clients[c] EXCEPT !.ctrl = w] ELSE clients[c]]
  /\ workers' = [workers EXCEPT ![w].claimed = TRUE]
  /\ UNCHANGED <<base, caches, ev>>

\* the promise given to e.waitUntil by the activate listener has resolved
ActivateDone(w) ==
  /\ workers[w].state = "activating"
  /\ workers[w].claimed
  /\ workers' = [workers EXCEPT ![w].state = "activated"]
  /\ UNCHANGED <<base, caches, clients, ev>>

\* ------------------------------------------------------------------ fetch
\* a fetch listener without the *.json test
FetchEventNoBypass(c, u) ==
  /\ ev.stage \in {"idle", "done"}
  /\ clients[c].open
  /\ clients[c].ctrl # 0
  /\ workers[clients[c].ctrl].state = "activated"
  /\ ev' = [NoEvent EXCEPT !.url = u, !.worker = clients[c].ctrl,
                           !.stage = "match", !.responded = TRUE]
  /\ UNCHANGED <<base, caches, workers, clients>>

\* the fetch listener, up to its return: *.json is left to the browser,
\* anything else is answered through respondWith
FetchEvent(c, u) ==
  /\ ev.stage \in {"idle", "done"}
  /\ clients[c].open
  /\ clients[c].ctrl # 0
  /\ workers[clients[c].ctrl].state = "activated"
  /\ ev' = [NoEvent EXCEPT !.url = u, !.worker = clients[c].ctrl,
                           !.stage = IF IsData(u) THEN "default" ELSE "match",
                           !.responded = ~IsData(u)]
  /\ UNCHANGED <<base, caches, workers, clients>>

\* a listener that goes to the network without looking at the lookup
CacheMatchNetworkFirst ==
  /\ ev.stage = "match"
  /\ ev' = [ev EXCEPT !.lookups = @ + 1, !.stage = "fetch"]
  /\ UNCHANGED <<base, caches, workers, clients>>

\* a listener whose answer never settles after a miss
CacheMatchHang ==
  /\ ev.stage = "match"
  /\ LET m == CachesMatch(caches, ev.url)
     IN  ev' = [ev EXCEPT !.lookups = @ + 1,
                          !.stage = IF m.resp.kind = "response" THEN "done" ELSE "pending",
                          !.result = m.resp,
                          !.store = m.store]
  /\ UNCHANGED <<base, caches, workers, clients>>

\* caches.match(e.request) resolves; resp || ... answers with a hit
CacheMatch ==
  /\ ev.stage = "match"
  /\ LET m == CachesMatch(caches, ev.url)
     IN  ev' = [ev EXCEPT !.lookups = @ + 1,
                          !.stage = IF m.resp.kind = "response" THEN "done" ELSE "fetch",
                          !.result = m.resp,
                          !.store = m.store]
  /\ UNCHANGED <<base, caches, workers, clients>>

\* what a network fetch of u can give: an error, or a response when the
\* network is up
NetOutcomes(up, u) ==
  {NetError} \cup (IF up THEN {Response(CacheKey(u), "network", 0)} ELSE {})

\* a listener that stores what the network answered
HandlerFetchWriteBack ==
  /\ ev.stage = "fetch"
  /\ \E up \in BOOLEAN : \E r \in NetOutcomes(up, ev.url) :
       /\ ev' = [ev EXCEPT !.fetches = @ + 1, !.stage = "done", !.net = r, !.result = r,
                           !.offline = ~up]
       /\ caches' = IF r.kind = "response"
                    THEN BatchPut(caches, workers[ev.worker].name,
                                  <<[key |-> CacheKey(ev.url), resp |-> r]>>)
                    ELSE caches
  /\ UNCHANGED <<base, workers, clients>>

\* a listener that fetches a second time when the first fetch failed
HandlerFetchRetry ==
  /\ ev.stage = "fetch"
  /\ \E up \in BOOLEAN : \E r \in NetOutcomes(up, ev.url) :
       ev' = [ev EXCEPT !.fetches = @ + 1,
                        !.stage = IF r = NetError /\ ev.fetches = 0 THEN "fetch" ELSE "done",
                        !.net = r, !.result = r, !.offline = ~up]
  /\ UNCHANGED <<base, caches, workers, clients>>

\* ... || fetch(e.request): the network answers or fails, and that is the
\* answer of the event
HandlerFetch ==
  /\ ev.stage = "fetch"
  /\ \E up \in BOOLEAN : \E r \in NetOutcomes(up, ev.url) :
       ev' = [ev EXCEPT !.fetches = @ + 1, !.stage = "done", !.net = r, !.result = r,
                        !.offline = ~up]
  /\ UNCHANGED <<base, caches, workers, clients>>

\* the listener returned without respondWith: the browser fetches
DefaultFetch ==
  /\ ev.stage = "default"
  /\ \E up \in BOOLEAN : \E r \in NetOutcomes(up, ev.url) :
       ev' = [ev EXCEPT !.fetches = @ + 1, !.stage = "done", !.net = r, !.result = r,
                        !.offline = ~up]
  /\ UNCHANGED <<base, caches, workers, clients>>

\* ---------------------------------------------------------- specification
Next ==
  \/ \E c \in Clients : ClientOpen(c)
  \/ \E c \in Clients : ClientClose(c)
  \/ \E i \in 1..Len(CACHE_NAMES) : Register(CACHE_NAMES[i])
  \/ \E w \in Ids : InstallOpen(w)
  \/ \E w \in Ids : AddAllFetch(w)
  \/ \E w \in Ids : AddAllPut(w)
  \/ \E w \in Ids : InstallDone(w)
  \/ \E w \in Ids : InstallFail(w)
  \/ \E w \in Ids : Activate(w)
  \/ \E w \in Ids : ActivateClaim(w)
  \/ \E w \in Ids : ActivateDone(w)
  \/ \E c \in Clients : \E u \in Requests(base) : FetchEvent(c, u)
  \/ CacheMatch
  \/ HandlerFetch
  \/ DefaultFetch

Spec == Init /\ [][Next]_vars

\* the lookup and the network fetch of a pending event complete
FairSpec == Spec /\ WF_vars(CacheMatch) /\ WF_vars(HandlerFetch)

\* ------------------------------------------------------------ properties
Settled == ev.stage = "done"

KeySet(list) == { list[i].key : i \in 1..Len(list) }

\* the worker's install has put its assets into its store
Stored(w) == workers[w].pc = "stored"

\* no store holds an entry for u
Uncached(u) == CachesMatch(caches, u).resp.kind # "response"

\* C1: once an install has succeeded, a lookup of every asset URL finds a
\* stored response, and a fetch event for an asset URL is settled with the
\* entry of the store that answered, without any network fetch.
C1_AssetsServedFromCache ==
  /\ (\E w \in Ids : Stored(w)) =>
        \A k \in AssetKeys(base) : CachesMatch(caches, k).resp.kind = "response"
  /\ ev.url \in AssetKeys(base) =>
        /\ ev.stage # "fetch"
        /\ ev.fetches = 0
        /\ Settled =>
             /\ ev.result.kind = "response"
             /\ ev.store # ""
             /\ ev.result.url = CacheKey(ev.url)
             /\ ev.result.origin = "install"
             /\ Stored(ev.result.by)

C1_Witness ==
  /\ Settled
  /\ ev.url = Resolve(base, ASSETS[2])
  /\ ev.result.kind = "response"
  /\ ev.fetches = 0

\* C2: a fetch event for a URL whose path ends in .json never looks into
\* the cache and never calls respondWith, whatever the stores hold; it is
\* left to the network, which is asked exactly once.
C2_JsonBypassesCache ==
  (ev.stage # "idle" /\ IsData(ev.url)) =>
     /\ ev.lookups = 0
     /\ ~ev.responded
     /\ ev.stage \in {"default", "done"}
     /\ Settled => ev.fetches = 1

C2_Witness ==
  /\ Settled
  /\ IsData(ev.url)
  /\ ~Uncached(ev.url)
  /\ ev.fetches = 1

\* C3: a .json request handled while the network is down fails, and no
\* .json request is ever answered from a store.
C3_JsonOfflineFails ==
  IsData(ev.url) =>
     /\ ev.store = ""
     /\ ev.result.origin \notin {"install", "foreign"}
     /\ (Settled /\ ev.offline) => ev.result = NetError

C3_Witness ==
  /\ Settled
  /\ ev.url = Resolve(base, DataRel)
  /\ ev.offline
  /\ ev.result = NetError
  /\ ~Uncached(ev.url)
  /\ \E w \in Ids : Stored(w)

\* C4: an install of which a fetch failed never leaves the installing
\* state but to become redundant, and no store holds a response it fetched.
C4_InstallAllOrNothing ==
  \A w \in Ids : workers[w].pc = "failed" =>
     /\ workers[w].state \in {"installing", "redundant"}
     /\ \A i \in 1..Len(caches) : \A j \in 1..Len(caches[i].list) :
          ~(caches[i].list[j].resp.origin = "install" /\ caches[i].list[j].resp.by = w)

C4_Witness ==
  \E w \in Ids :
     /\ workers[w].pc = "failed"
     /\ workers[w].state = "redundant"
     /\ HasCache(caches, workers[w].name)
     /\ CacheOf(caches, workers[w].name) = <<>>

\* a URL that is neither an asset nor data
IsOther(u) == Pathname(u) \notin AssetKeys(base) /\ ~IsData(u)

\* a settled miss made one lookup and one fetch and has the network's answer
C5_MissFetchesOnce ==
  (Settled /\ IsOther(ev.url) /\ ev.store = "") =>
     /\ ev.lookups = 1
     /\ ev.fetches = 1
     /\ ev.result \in NetOutcomes(~ev.offline, ev.url)
     /\ ev.result.origin \notin {"install", "foreign"}

\* a step leaves a URL that is in no store in no store
C5_MissStays ==
  caches' # caches =>
  \A u \in Requests(base) : (IsOther(u) /\ Uncached(u)) => Uncached(u)'

\* C5: a fetch event for a URL that is neither an asset nor data and misses
\* the cache makes one lookup and one network fetch and is settled with what
\* the network gave; a URL of that kind that is in no store stays in no store.
C5_UncachedAlwaysFetches == [] C5_MissFetchesOnce /\ [][C5_MissStays]_vars

C5_Witness ==
  /\ Settled
  /\ ev.url = Resolve(base, OtherRel)
  /\ ev.store = ""
  /\ ev.fetches = 1
  /\ ev.result.kind = "response"
  /\ Uncached(ev.url)

\* C6: whenever an install of a version has succeeded, however many installs
\* of that version ran before, the store of that version has one entry per
\* asset URL and no other entry.
C6_InstallIdempotent ==
  \A w \in Ids : Stored(w) =>
     /\ HasCache(caches, workers[w].name)
     /\ Len(CacheOf(caches, workers[w].name)) = Len(ASSETS)
     /\ KeySet(CacheOf(caches, workers[w].name)) = AssetKeys(base)

C6_Witness ==
  \E w1, w2 \in Ids :
     /\ w1 < w2
     /\ workers[w1].name = workers[w2].name
     /\ Stored(w1) /\ Stored(w2)
     /\ \A j \in 1..Len(ASSETS) :
          CacheOf(caches, workers[w2].name)[j].resp.by = w2

\* C7: a fetch event is never answered from the store of a version other
\* than the version of the worker that handles it.
C7_NoSupersededResponse ==
  (Settled /\ ev.store \in { CACHE_NAMES[i] : i \in 1..Len(CACHE_NAMES) }) =>
     ev.store = workers[ev.worker].name

\* the step of the activate listener of w claims the open pages
C8_Claim ==
  \A w \in Ids :
     (workers[w].state = "activating" /\ ~workers[w].claimed /\ workers'[w].claimed) =>
        /\ \A c \in Clients : clients[c].open =>
              (clients'[c].open /\ clients'[c].ctrl = w)
        /\ caches' = caches

\* C8: the step of the activate listener makes the worker the controller
\* of every open page and changes no store.
C8_ActivateClaimsAndKeepsStores == [][C8_Claim]_vars

C8_Witness ==
  \E w \in Ids :
     /\ workers[w].state = "activating"
     /\ workers[w].claimed
     /\ \E c \in Clients : clients[c].open /\ clients[c].ctrl = w
     /\ \E i \in 1..Len(caches) :
          caches[i].name \notin {workers[w].name, "other"} /\ caches[i].list # <<>>

\* C9: a worker that is waiting, activating or activated has a store that
\* holds every asset URL.
C9_ActiveImpliesCached ==
  \A w \in Ids : workers[w].state \in {"installed", "activating", "activated"} =>
     /\ HasCache(caches, workers[w].name)
     /\ AssetKeys(base) \subseteq KeySet(CacheOf(caches, workers[w].name))

C9_Witness ==
  \E w \in Ids :
     /\ workers[w].state = "activated"
     /\ ev.worker = w
     /\ ev.stage = "match"

\* C10: no step of a fetch event changes a store.
C10_FetchKeepsStores == [][ev' # ev => caches' = caches]_vars

C10_Witness ==
  /\ Settled
  /\ ev.store = ""
  /\ ev.lookups = 1
  /\ ev.result.kind = "response"
  /\ \E i \in 1..Len(caches) : caches[i].list # <<>>

\* the characters of u before its query string and fragment end in .json
PathEndsDotJson(u) ==
  \E n \in 5..Len(u) :
     /\ \A i \in 1..n : u[i] \notin {"?", "#"}
     /\ n = Len(u) \/ u[n + 1] \in {"?", "#"}
     /\ u[n - 4] = "." /\ u[n - 3] = "j" /\ u[n - 2] = "s"
     /\ u[n - 1] = "o" /\ u[n] = "n"

\* C11: a request is left to the network exactly when the path of its URL
\* ends in the literal .json: restrictions.json?t=1 is, x.json.html, x.JSON
\* and page?f=a.json are answered through respondWith and looked up.
C11_DataIffPathEndsJson ==
  /\ ev.stage # "idle" =>
        /\ ev.responded <=> ~PathEndsDotJson(ev.url)
        /\ ev.stage = "default" => PathEndsDotJson(ev.url)
        /\ ev.stage \in {"match", "fetch"} => ~PathEndsDotJson(ev.url)
        /\ Settled => ev.lookups = (IF PathEndsDotJson(ev.url) THEN 0 ELSE 1)
  /\ ev.url = Resolve(base, DataQueryRel) => ~ev.responded
  /\ ev.url \in {Resolve(base, JsonHtmlRel), Resolve(base, UpperJsonRel),
                 Resolve(base, QueryJsonRel)} => ev.responded

C11_Witness ==
  /\ Settled
  /\ ev.url = Resolve(base, QueryJsonRel)
  /\ ev.responded
  /\ ev.lookups = 1

\* C12: a request answered through respondWith whose lookup missed and
\* whose network fetch failed is settled with that failure, after one
\* lookup and one fetch, and with no content from anywhere else.
C12_FetchFailurePropagates ==
  /\ (Settled /\ ev.responded /\ ev.net = NetError) =>
        /\ ev.result = NetError
        /\ ev.fetches = 1
        /\ ev.lookups = 1
        /\ ev.store = ""
  /\ (ev.responded /\ ev.fetches > 0) => (Settled /\ ev.fetches = 1)
  /\ (Settled /\ ev.responded /\ ev.result.kind # "response") => ev.net = NetError

C12_Witness ==
  /\ Settled
  /\ ev.responded
  /\ ev.net = NetError
  /\ ev.result = NetError
  /\ ~ev.offline
  /\ ev.url = Resolve(base, JsonHtmlRel)

\* the five paths of the app shell, without the directory in front
ShellTails ==
  { <<>>,
    <<"i","n","d","e","x",".","h","t","m","l">>,
    <<"m","a","n","i","f","e","s","t",".","w","e","b","m","a","n","i","f","e","s","t">>,
    <<"i","c","o","n","s","/","i","c","o","n","-","1","9","2",".","p","n","g">>,
    <<"i","c","o","n","s","/","i","c","o","n","-","5","1","2",".","p","n","g">> }

IndexTail == <<"i","n","d","e","x",".","h","t","m","l">>

RootShellKeys == { <<"/">> \o tl : tl \in ShellTails }

\* C13 as stated: after a successful install the keys of the store are the
\* five root-relative paths and /index.html is found.
C13_RootRelativeKeys ==
  \A w \in Ids : Stored(w) =>
     /\ KeySet(CacheOf(caches, workers[w].name)) = RootShellKeys
     /\ CachesMatch(caches, <<"/">> \o IndexTail).resp.kind = "response"

\* C13, amended: after a successful install the keys of the store are the
\* five paths of the app shell under the directory sw.js is served from,
\* and index.html of that directory is found.
C13_KeysUnderScriptDirectory ==
  \A w \in Ids : Stored(w) =>
     /\ KeySet(CacheOf(caches, workers[w].name)) = { base \o tl : tl \in ShellTails }
     /\ CachesMatch(caches, base \o IndexTail).resp.kind = "response"
     /\ base = <<"/">> => KeySet(CacheOf(caches, workers[w].name)) = RootShellKeys

C13_Witness ==
  /\ base # <<"/">>
  /\ \E w \in Ids : Stored(w) /\ workers[w].state = "activated" /\ ev.worker = w
  /\ Settled
  /\ ev.url = base \o IndexTail
  /\ ev.result.kind = "response"
  /\ ev.store = "godchecker-v1"

\* C14: under FairSpec, an event answered through respondWith that waits
\* for its lookup or for its network fetch is eventually settled.
C14_EventEventuallySettled ==
  (ev.responded /\ ev.stage # "done") ~> (ev.responded /\ ev.stage = "done")

C14_Witness ==
  /\ ev.responded
  /\ ev.stage = "done"
  /\ ev.lookups = 1
  /\ ev.fetches = 1
  /\ ev.url = Resolve(base, UpperJsonRel)

\* while a worker is activated, whatever another install of the same
\* version is doing, the store of that version has every asset URL
C15_AssetsStayCached ==
  \A w1, w2 \in Ids :
     (w1 # w2 /\ workers[w1].state = "activated" /\ workers[w1].name = workers[w2].name) =>
        \A k \in AssetKeys(base) :
           MatchIn(CacheOf(caches, workers[w1].name), k).kind = "response"

\* a step removes no key from a store
C15_KeysKept ==
  caches' # caches =>
     \A i \in 1..Len(caches) :
        /\ i <= Len(caches')
        /\ caches'[i].name = caches[i].name
        /\ KeySet(caches[i].list) \subseteq KeySet(caches'[i].list)

\* C15: an install that runs again on the store of the activated worker
\* never removes an entry, in any of its steps and whether it ends well or
\* not, so that a lookup of an asset URL hits at every moment of it.
C15_ReinstallKeepsHits == [] C15_AssetsStayCached /\ [][C15_KeysKept]_vars

C15_Witness ==
  \E w1, w2 \in Ids :
     /\ w1 < w2
     /\ workers[w1].name = workers[w2].name
     /\ workers[w1].state = "activated"
     /\ workers[w2].state = "installing"
     /\ workers[w2].pc = "stored"
     /\ Settled
     /\ ev.worker = w1
     /\ ev.result.kind = "response"
     /\ ev.result.by = w2
====
